---- MODULE Spec2Model ----
(***************************************************************************)
(* Model of the Twilio SMS notification MCP server.                        *)
(*                                                                         *)
(* Two entry points are modelled, each with its own module-level state:    *)
(*   http-server.js  the express process: POST /mcp, the hand-written      *)
(*                   JSON-RPC router around executeTaskComplete.  The SDK  *)
(*                   handlers registered in the same file receive nothing: *)
(*                   the SSE transport asks its client to POST to /mcp,    *)
(*                   which express routes to the hand-written router.      *)
(*   server.js       the stdio process: the SDK CallToolRequestSchema      *)
(*                   handler, with standard output as the protocol stream. *)
(*                                                                         *)
(* Every handler invocation owns one slot.  A slot advances from one       *)
(* suspension point (await of an external call) to the next per action;    *)
(* an await of a value that is already settled is not a suspension point.  *)
(* The SMS provider and the persistence sink are the environment: their    *)
(* replies are chosen nondeterministically.  Strings are run-length        *)
(* encoded sequences of UTF-16 code units.                                 *)
(***************************************************************************)
EXTENDS Integers, Sequences, FiniteSets, TLC

\* ------------------------------------------------------------------ bounds
NumSlots == 2     \* handler invocations that can be in flight together
MaxSent == 2      \* provider sends observed in one behaviour
MaxExtra == 1     \* longest message is MAX_LENGTH + MaxExtra code units

\* ------------------------------------------------------- program constants
MAX_LENGTH == 250
PREFIX_LENGTH == 247
METHOD_NOT_FOUND == -32601
INTERNAL_ERROR == -32603

Slots == 1..NumSlots

\* --------------------------------------------------------------- JS values
\* A string is held run-length encoded: the sequence of its maximal runs of
\* equal UTF-16 code units, each run a code unit and a count >= 1.
Run(unit, count) == [unit |-> unit, count |-> count]

\* String.prototype.length, in code units.
RECURSIVE Length(_)
Length(s) == IF s = << >> THEN 0 ELSE Head(s).count + Length(Tail(s))

\* s + t
Concat(s, t) ==
    IF s = << >> THEN t
    ELSE IF t = << >> THEN s
    ELSE IF s[Len(s)].unit = t[1].unit
    THEN SubSeq(s, 1, Len(s) - 1)
         \o <<Run(t[1].unit, s[Len(s)].count + t[1].count)>>
         \o Tail(t)
    ELSE s \o t

\* String.prototype.substring(0, n)
RECURSIVE Substring(_, _)
Substring(s, n) ==
    IF n <= 0 \/ s = << >> THEN << >>
    ELSE IF Head(s).count <= n
    THEN <<Head(s)>> \o Substring(Tail(s), n - Head(s).count)
    ELSE <<Run(Head(s).unit, n)>>

\* The code unit at position i, counted from 1 ("" past the end).
RECURSIVE UnitAt(_, _)
UnitAt(s, i) ==
    IF s = << >> THEN ""
    ELSE IF i <= Head(s).count THEN Head(s).unit
    ELSE UnitAt(Tail(s), i - Head(s).count)

\* A JS value that is either undefined or a string.
Undefined == [type |-> "undefined", str |-> << >>]
Str(s) == [type |-> "string", str |-> s]

\* JS truthiness of such a value: undefined and "" are falsy.
Truthy(v) == v.type = "string" /\ v.str # << >>

\* a || b
OrElse(a, b) == IF Truthy(a) THEN a ELSE b

\* String.prototype.startsWith('+')
StartsWithPlus(v) == v.str # << >> /\ v.str[1].unit = "+"

\* JSON-RPC ids: absent, null, a number or a string.
IdUndefined == [type |-> "undefined", num |-> 0, str |-> ""]
IdNull == [type |-> "null", num |-> 0, str |-> ""]
IdNum(n) == [type |-> "number", num |-> n, str |-> ""]
IdStr(s) == [type |-> "string", num |-> 0, str |-> s]

\* JS truthiness of an id: undefined, null, 0 and "" are falsy.
IdTruthy(id) == \/ id.type = "number" /\ id.num # 0
                \/ id.type = "string" /\ id.str # ""

\* id || null
IdOrNull(id) == IF IdTruthy(id) THEN id ELSE IdNull

\* What JSON.stringify keeps of an id property: undefined is dropped.
NonNullId(id) == id.type \in {"number", "string"}

\* ------------------------------------------------------------------ inputs
\* Message texts by length.  A text longer than the kept prefix changes its
\* code unit at the last kept position and again right after it, so that a
\* cut one unit early or late gives a different text.
MessageOfLength(n) ==
    IF n = 0 THEN << >>
    ELSE IF n <= PREFIX_LENGTH THEN <<Run("a", n)>>
    ELSE <<Run("a", PREFIX_LENGTH - 1), Run("b", 1), Run("c", n - PREFIX_LENGTH)>>
MessageLengths == {0, 1, MAX_LENGTH, MAX_LENGTH + MaxExtra}

\* A text of the greatest length whose position PREFIX_LENGTH holds the high
\* surrogate of a character outside the basic plane (U+1F600), followed by
\* its low surrogate.
HighSurrogate == "D83D"
LowSurrogate == "DE00"
AstralMessage ==
    <<Run("a", PREFIX_LENGTH - 1), Run(HighSurrogate, 1), Run(LowSurrogate, 1),
      Run("c", MAX_LENGTH + MaxExtra - PREFIX_LENGTH - 1)>>

Messages == {Undefined, Str(AstralMessage)}
            \cup {Str(MessageOfLength(n)) : n \in MessageLengths}

PhoneNumbers == {Undefined, Str(<< >>), Str(<<Run("+", 1), Run("1", 1)>>),
                 Str(<<Run("5", 1)>>)}
DefaultRecipients == {Undefined, Str(<<Run("+", 1), Run("9", 1)>>),
                      Str(<<Run("9", 1)>>)}
EnvValues == {Undefined, Str(<<Run("x", 1)>>)}

\* The Twilio environments explored: everything set, exactly one variable
\* missing, or nothing set.
Unset(env) == Cardinality({k \in DOMAIN env : env[k] = Undefined})
Environments ==
    {env \in [accountSid : EnvValues, authToken : EnvValues,
              twilioPhoneNumber : EnvValues,
              defaultRecipient : DefaultRecipients] : Unset(env) \in {0, 1, 4}}

Ids == {IdUndefined, IdNum(0), IdNum(7), IdStr(""), IdStr("a")}

\* params.arguments: absent, or an object with message and to_phone_number.
NoArguments == [present |-> FALSE, message |-> Undefined,
                to_phone_number |-> Undefined]
Arguments == {NoArguments} \cup
    {[present |-> TRUE, message |-> m, to_phone_number |-> t] :
        m \in Messages, t \in PhoneNumbers}

\* params: absent, or an object with name and arguments.
NoParams == [present |-> FALSE, name |-> "", arguments |-> NoArguments]
ToolNames == {"task_complete", "wrong_tool"}
Params == {NoParams} \cup
    {[present |-> TRUE, name |-> "wrong_tool", arguments |-> NoArguments]} \cup
    {[present |-> TRUE, name |-> "task_complete", arguments |-> a] :
        a \in Arguments}

\* req.body as express.json() leaves it: absent, or a JSON-RPC envelope.
NoBody == [present |-> FALSE, method |-> "", id |-> IdUndefined,
           params |-> NoParams]
PlainMethods == {"initialize", "notifications/initialized", "tools/list",
                 "resources/list"}
Bodies == {NoBody} \cup
    {[present |-> TRUE, method |-> m, id |-> i, params |-> NoParams] :
        m \in PlainMethods, i \in Ids} \cup
    {[present |-> TRUE, method |-> "tools/call", id |-> i, params |-> p] :
        i \in Ids, p \in Params}

\* A tools/call request as the SDK hands it to a CallToolRequestSchema
\* handler: the schema guarantees params.name and a non-null id.
SdkRequests ==
    {b \in Bodies : b.present /\ b.method = "tools/call" /\ b.params.present
                    /\ NonNullId(b.id)}

\* A tools/list request as the SDK hands it to a ListToolsRequestSchema
\* handler.
SdkListRequests ==
    {b \in Bodies : b.present /\ b.method = "tools/list" /\ NonNullId(b.id)}

\* Provider replies.
MessageSids == {"SM1"}
ProviderErrors == {"ECONNREFUSED"}
InsertOutcomes == {"row", "error", "throw"}

\* ------------------------------------------------------------------- state
VARIABLES
    program,            \* the entry point that was launched
    accountSid,         \* process.env.TWILIO_ACCOUNT_SID
    authToken,          \* process.env.TWILIO_AUTH_TOKEN
    twilioPhoneNumber,  \* process.env.TWILIO_PHONE_NUMBER
    defaultRecipient,   \* process.env.DEFAULT_PHONE_NUMBER
    twilioClient,       \* TRUE when the module-level client is not null
    supabase,           \* TRUE when the module-level client is not null
    stdout,             \* lines written to standard output (server.js)
    inv,                \* the handler invocations, one per slot
    twilioCreates,      \* messages.create calls the provider has received
    sse,                \* the responses of the GET /mcp requests, one per slot
    health              \* the body of the last GET /health response

vars == <<program, accountSid, authToken, twilioPhoneNumber, defaultRecipient,
          twilioClient, supabase, stdout, inv, twilioCreates, sse, health>>

config == <<program, accountSid, authToken, twilioPhoneNumber,
            defaultRecipient, twilioClient, supabase>>

Programs == {"http-server.js", "server.js"}

\* --------------------------------------------------------- results, errors
NoToolResult == [success |-> FALSE, message_sid |-> "", truncated |-> FALSE,
                 original_length |-> 0, sent_length |-> 0,
                 recipient |-> Undefined]

NoResult == [tag |-> "none", protocolVersion |-> "", tools |-> << >>,
             call |-> NoToolResult]

InitializeResult == [tag |-> "initialize", protocolVersion |-> "2024-11-05",
                     tools |-> << >>, call |-> NoToolResult]

TaskCompleteTool == [name |-> "task_complete",
                     properties |-> {"message", "to_phone_number"},
                     required |-> {"message"}]

ToolsListResult == [tag |-> "tools", protocolVersion |-> "",
                    tools |-> <<TaskCompleteTool>>, call |-> NoToolResult]

ContentResult(result) == [tag |-> "content", protocolVersion |-> "",
                          tools |-> << >>, call |-> result]

\* Error messages are sequences of text fragments: a template literal is the
\* concatenation of its literal parts and the interpolated values.
NoError == << >>
NotConfiguredError ==
    <<"Twilio client is not configured. Check environment variables.">>
MessageRequiredError == <<"Message is required">>
E164Error == <<"Phone number must be in E.164 format (start with +)">>
UnknownToolError(name) == <<"Unknown tool: ", name>>
TypeErrorOf(what) == <<"TypeError: ", what>>
FailedToSend(message) == <<"Failed to send SMS", ": ">> \o message

\* An HTTP or transport response.  status is 0 on the SDK transports.
NoResponseBody(status) ==
    [status |-> status, hasBody |-> FALSE, id |-> IdUndefined,
     kind |-> "none", code |-> 0, message |-> << >>, data |-> << >>,
     result |-> NoResult]

ResultEnvelope(status, id, result) ==
    [status |-> status, hasBody |-> TRUE, id |-> id, kind |-> "result",
     code |-> 0, message |-> << >>, data |-> << >>, result |-> result]

ErrorEnvelope(status, id, code, message, data) ==
    [status |-> status, hasBody |-> TRUE, id |-> id, kind |-> "error",
     code |-> code, message |-> message, data |-> data, result |-> NoResult]

\* ------------------------------------------------------------ module scope
\* isTwilioConfigured(), as a boolean.
isTwilioConfigured ==
    /\ Truthy(accountSid)
    /\ Truthy(authToken)
    /\ Truthy(twilioPhoneNumber)
    /\ Truthy(defaultRecipient)

\* a && b: the first operand when it is falsy, else the second.
AndAlso(a, b) == IF Truthy(a) THEN b ELSE a

\* isTwilioConfigured(), as the value the && chain returns: the first unset
\* variable, or DEFAULT_PHONE_NUMBER when all four are set.
isTwilioConfiguredValue ==
    AndAlso(AndAlso(AndAlso(accountSid, authToken), twilioPhoneNumber),
            defaultRecipient)

\* isSupabaseConfigured()
isSupabaseConfigured == supabase

\* Module-level Supabase initialisation of http-server.js: the client exists
\* when URL and key are well formed and createClient does not throw.
SupabaseEnv == {"unset", "malformed", "wellformed"}
SupabaseInitHttp(url, key, createOk) ==
    url = "wellformed" /\ key = "wellformed" /\ createOk

\* Module-level Supabase initialisation of server.js: URL and key need only
\* be set.
SupabaseInitStdio(url, key, createOk) ==
    url # "unset" /\ key # "unset" /\ createOk

\* A line on standard output: a framed JSON-RPC message written by the
\* transport, or a console.log line, named by its source line in server.js.
RpcLine == [kind |-> "jsonrpc", line |-> 0]
LogLine(n) == [kind |-> "log", line |-> n]

\* What the module-level code of server.js writes to standard output.
StartupStdout(url, key, createOk) ==
    IF url # "unset" /\ key # "unset"
    THEN IF createOk THEN {LogLine(26)} ELSE {LogLine(28)}
    ELSE {LogLine(31)}

\* ------------------------------------------------------------ invocations
NoTwilioMessage == [sid |-> "", status |-> ""]

\* The response object of a GET /mcp request nothing has been written to;
\* attached: the shared server instance holds this request's transport.
NoConnection ==
    [state |-> "none", headersSent |-> FALSE, status |-> 0, contentType |-> "",
     events |-> << >>, json |-> "", ended |-> FALSE, attached |-> FALSE]

\* No GET /health has been answered.
NoHealth == [sent |-> FALSE, status |-> "", server |-> "", configured |-> Undefined]

IdleSlot == [pc |-> "idle", via |-> "none", request |-> NoBody,
             recipient |-> Undefined, finalMessage |-> << >>,
             originalLength |-> 0, twilioMessage |-> NoTwilioMessage,
             providerError |-> << >>,
             sends |-> << >>, appends |-> << >>, insert |-> "none",
             responses |-> << >>]

Init ==
    /\ program \in Programs
    /\ \E env \in Environments :
         /\ accountSid = env.accountSid
         /\ authToken = env.authToken
         /\ twilioPhoneNumber = env.twilioPhoneNumber
         /\ defaultRecipient = env.defaultRecipient
    /\ twilioClient = isTwilioConfigured
    /\ \E url \in SupabaseEnv, key \in SupabaseEnv, createOk \in BOOLEAN :
         IF program = "server.js"
         THEN /\ supabase = SupabaseInitStdio(url, key, createOk)
              /\ stdout = StartupStdout(url, key, createOk)
         ELSE /\ supabase = SupabaseInitHttp(url, key, createOk)
              /\ stdout = {}
    /\ inv = [r \in Slots |-> IdleSlot]
    /\ twilioCreates = 0
    /\ sse = [c \in Slots |-> NoConnection]
    /\ health = NoHealth

\* ------------------------------------------- the tool body (shared text)
\* const recipient = to_phone_number || defaultRecipient
Recipient(args) == OrElse(args.to_phone_number, defaultRecipient)

\* FinalMessage with the marker appended to the first MAX_LENGTH code units.
FinalMessageCutsAtLimit(message) ==
    IF Length(message) > MAX_LENGTH
    THEN Concat(Substring(message, MAX_LENGTH), <<Run(".", 3)>>)
    ELSE message

\* The truncation: at most MAX_LENGTH code units reach the provider.
FinalMessage(message) ==
    IF Length(message) > MAX_LENGTH
    THEN Concat(Substring(message, PREFIX_LENGTH), <<Run(".", 3)>>)
    ELSE message

\* The argument of twilioClient.messages.create.
CreateCall(finalMessage, recipient) ==
    [body |-> finalMessage, from |-> twilioPhoneNumber, to |-> recipient]

\* MessageData with the untruncated text and the default recipient logged
\* as what was sent.
MessageDataLogsOriginal(slot) ==
    [message_sid |-> slot.twilioMessage.sid,
     from_phone |-> twilioPhoneNumber,
     to_phone |-> defaultRecipient,
     original_message |-> slot.request.params.arguments.message.str,
     sent_message |-> slot.request.params.arguments.message.str,
     original_length |-> slot.originalLength,
     sent_length |-> slot.originalLength,
     truncated |-> slot.originalLength > MAX_LENGTH,
     status |-> "sent",
     twilio_status |-> slot.twilioMessage.status]

\* The record handed to logMessageToSupabase (sent_at, a timestamp, is left
\* out).
MessageData(slot) ==
    [message_sid |-> slot.twilioMessage.sid,
     from_phone |-> twilioPhoneNumber,
     to_phone |-> slot.recipient,
     original_message |-> slot.request.params.arguments.message.str,
     sent_message |-> slot.finalMessage,
     original_length |-> slot.originalLength,
     sent_length |-> Length(slot.finalMessage),
     truncated |-> slot.originalLength > MAX_LENGTH,
     status |-> "sent",
     twilio_status |-> slot.twilioMessage.status]

\* ValidationThrows without the check of the recipient's first character.
ValidationThrowsNoFormatCheck(args) ==
    IF ~args.present
    THEN TypeErrorOf("Cannot destructure property 'message' of 'args'")
    ELSE IF ~Truthy(args.message) THEN MessageRequiredError
    ELSE NoError

\* The checks between the configuration check and the provider call: the
\* message of the error they throw, or NoError.
ValidationThrows(args) ==
    IF ~args.present
    THEN TypeErrorOf("Cannot destructure property 'message' of 'args'")
    ELSE IF ~Truthy(args.message) THEN MessageRequiredError
    ELSE IF Recipient(args).type = "undefined"
    THEN TypeErrorOf("Cannot read properties of undefined (reading 'startsWith')")
    ELSE IF ~StartsWithPlus(Recipient(args)) THEN E164Error
    ELSE NoError

\* A slot that has run the tool body up to the await of messages.create.
AtCreate(via, request) ==
    LET args == request.params.arguments
        message == args.message.str
    IN [IdleSlot EXCEPT
            !.pc = "awaitCreate", !.via = via, !.request = request,
            !.recipient = Recipient(args),
            !.finalMessage = FinalMessage(message),
            !.originalLength = Length(message),
            !.sends = <<CreateCall(FinalMessage(message), Recipient(args))>>]

\* A slot whose handler has answered without calling the provider.
Answered(via, request, response) ==
    [IdleSlot EXCEPT !.pc = "done", !.via = via, !.request = request,
                     !.responses = <<response>>]

\* A suspended slot whose handler answers.
Answer(slot, response) ==
    [slot EXCEPT !.pc = "done", !.responses = Append(@, response)]

\* A slot resumed with the provider's message, suspended on the insert.
AtInsert(slot) ==
    [slot EXCEPT !.pc = "awaitInsert", !.appends = Append(@, MessageData(slot))]

WithMessage(slot, sid) ==
    [slot EXCEPT !.twilioMessage = [sid |-> sid, status |-> "queued"]]

\* ------------------------------------------------- http-server.js: POST /mcp
\* executeTaskCompleteThrows with the arguments inspected before the
\* configuration check.
executeTaskCompleteThrowsArgsFirst(args) ==
    IF ValidationThrows(args) # NoError THEN ValidationThrows(args)
    ELSE IF ~twilioClient THEN NotConfiguredError
    ELSE NoError

\* executeTaskComplete up to the provider call: the error it throws, or
\* NoError.
executeTaskCompleteThrows(args) ==
    IF ~twilioClient THEN NotConfiguredError ELSE ValidationThrows(args)

\* The result object executeTaskComplete returns.
executeTaskCompleteResult(slot) ==
    [success |-> TRUE,
     message_sid |-> slot.twilioMessage.sid,
     truncated |-> slot.originalLength > MAX_LENGTH,
     original_length |-> slot.originalLength,
     sent_length |-> Length(slot.finalMessage),
     recipient |-> slot.recipient]

\* The error thrown inside the try block of app.post('/mcp') before the
\* first await, or NoError.
PostThrows(body) ==
    IF ~body.present
    THEN TypeErrorOf("Cannot read properties of undefined (reading 'method')")
    ELSE IF body.method # "tools/call" THEN NoError
    ELSE IF ~body.params.present
    THEN TypeErrorOf("Cannot destructure property 'name' of 'request.params'")
    ELSE IF body.params.name # "task_complete"
    THEN UnknownToolError(body.params.name)
    ELSE executeTaskCompleteThrows(body.params.arguments)

\* The catch block of app.post('/mcp'): req.body?.id || null.
PostCatch(body, error) ==
    ErrorEnvelope(500, IdOrNull(body.id), INTERNAL_ERROR,
                  <<"Internal error">>, error)

\* PostRoute with the tool listed only while the SMS client exists.
PostRouteHidesTool(body) ==
    IF body.method = "initialize"
    THEN ResultEnvelope(200, body.id, InitializeResult)
    ELSE IF body.method = "notifications/initialized"
    THEN NoResponseBody(200)
    ELSE IF body.method = "tools/list"
    THEN ResultEnvelope(200, body.id,
                        IF twilioClient THEN ToolsListResult
                        ELSE [ToolsListResult EXCEPT !.tools = << >>])
    ELSE ErrorEnvelope(400, IdOrNull(body.id), METHOD_NOT_FOUND,
                       <<"Method not found">>, << >>)

\* PostRoute on a server that remembers the calls it has made: the tool is
\* no longer listed after the first send.
PostRouteRemembers(body) ==
    IF body.method = "initialize"
    THEN ResultEnvelope(200, body.id, InitializeResult)
    ELSE IF body.method = "notifications/initialized"
    THEN NoResponseBody(200)
    ELSE IF body.method = "tools/list"
    THEN ResultEnvelope(200, body.id,
                        IF twilioCreates = 0 THEN ToolsListResult
                        ELSE [ToolsListResult EXCEPT !.tools = << >>])
    ELSE ErrorEnvelope(400, IdOrNull(body.id), METHOD_NOT_FOUND,
                       <<"Method not found">>, << >>)

\* The branches of app.post('/mcp') that answer without awaiting.
PostRoute(body) ==
    IF body.method = "initialize"
    THEN ResultEnvelope(200, body.id, InitializeResult)
    ELSE IF body.method = "notifications/initialized"
    THEN NoResponseBody(200)
    ELSE IF body.method = "tools/list"
    THEN ResultEnvelope(200, body.id, ToolsListResult)
    ELSE ErrorEnvelope(400, IdOrNull(body.id), METHOD_NOT_FOUND,
                       <<"Method not found">>, << >>)

\* PostToolResponse built from a variable the invocations share: the record
\* of the first slot.
PostToolResponseShared(slot) ==
    ResultEnvelope(200, inv[1].request.id,
                   ContentResult(executeTaskCompleteResult(inv[1])))

\* The tools/call response of app.post('/mcp').
PostToolResponse(slot) ==
    ResultEnvelope(200, slot.request.id,
                   ContentResult(executeTaskCompleteResult(slot)))

\* A slot is free when its handler is not suspended: it never ran, or it
\* has answered.
Free(slot) == slot.pc \in {"idle", "done"}

\* The handler of app.post('/mcp') runs on a request, to its first await or
\* to its response.
PostHandler(r, body) ==
    /\ program = "http-server.js"
    /\ IF PostThrows(body) # NoError
       THEN /\ inv' = [inv EXCEPT ![r] =
                        Answered("post", body, PostCatch(body, PostThrows(body)))]
            /\ UNCHANGED twilioCreates
       ELSE IF body.method = "tools/call"
       THEN /\ twilioCreates < MaxSent
            /\ inv' = [inv EXCEPT ![r] = AtCreate("post", body)]
            /\ twilioCreates' = twilioCreates + 1
       ELSE /\ inv' = [inv EXCEPT ![r] = Answered("post", body, PostRoute(body))]
            /\ UNCHANGED twilioCreates
    /\ UNCHANGED <<config, sse, health, stdout>>

\* A POST /mcp request arrives and its handler runs at once.
PostMcp(r, body) ==
    /\ Free(inv[r])
    /\ PostHandler(r, body)

\* A POST /mcp request has arrived at the listening socket; its handler has
\* not run yet.
Received(body) ==
    [IdleSlot EXCEPT !.pc = "received", !.via = "post", !.request = body]

\* The tools/call requests that have arrived and not been handled.
ReceivedCalls ==
    {q \in Slots : inv[q].pc = "received" /\ inv[q].request.method = "tools/call"}

PostReceived(r, body) ==
    /\ program = "http-server.js"
    /\ Free(inv[r])
    /\ body.method = "tools/call" =>
          twilioCreates + Cardinality(ReceivedCalls) < MaxSent
    /\ inv' = [inv EXCEPT ![r] = Received(body)]
    /\ UNCHANGED <<config, sse, health, stdout, twilioCreates>>

\* A slot is suspended on an external call.
Suspended(slot) == slot.pc \in {"awaitCreate", "awaitInsert"}

\* PostDispatch on a server whose event loop is held by a suspended handler.
PostDispatchBlocked(r) ==
    /\ inv[r].pc = "received"
    /\ \A q \in Slots : ~Suspended(inv[q])
    /\ PostHandler(r, inv[r].request)

\* The event loop hands a received request to the handler of
\* app.post('/mcp'); handlers suspended on an await do not hold it.
PostDispatch(r) ==
    /\ inv[r].pc = "received"
    /\ PostHandler(r, inv[r].request)

\* messages.create resolves inside executeTaskComplete: the result is built
\* and logMessageToSupabase is called; without a Supabase client it returns
\* null at once and the response is sent.
PostCreateResolves(r, sid) ==
    /\ inv[r].pc = "awaitCreate" /\ inv[r].via = "post"
    /\ inv' = [inv EXCEPT ![r] =
                 IF isSupabaseConfigured
                 THEN AtInsert(WithMessage(@, sid))
                 ELSE Answer(WithMessage(@, sid),
                             PostToolResponse(WithMessage(@, sid)))]
    /\ UNCHANGED <<config, sse, health, stdout, twilioCreates>>

\* PostCreateRejects with the rejection escaping the handler: the request is
\* left without a response.
PostCreateRejectsUnanswered(r, error) ==
    /\ inv[r].pc = "awaitCreate" /\ inv[r].via = "post"
    /\ inv' = [inv EXCEPT ![r] = [@ EXCEPT !.pc = "done",
                                           !.providerError = <<error>>]]
    /\ UNCHANGED <<config, sse, health, stdout, twilioCreates>>

\* PostCreateRejects with the failed send recorded in the message log.
PostCreateRejectsLogs(r, error) ==
    /\ inv[r].pc = "awaitCreate" /\ inv[r].via = "post"
    /\ inv' = [inv EXCEPT ![r] =
                 Answer([@ EXCEPT !.providerError = <<error>>,
                                  !.appends = Append(@, MessageData(inv[r]))],
                        PostCatch(@.request, <<error>>))]
    /\ UNCHANGED <<config, sse, health, stdout, twilioCreates>>

\* messages.create rejects inside executeTaskComplete: nothing catches the
\* error before the catch block of app.post('/mcp').
PostCreateRejects(r, error) ==
    /\ inv[r].pc = "awaitCreate" /\ inv[r].via = "post"
    /\ inv' = [inv EXCEPT ![r] =
                 Answer([@ EXCEPT !.providerError = <<error>>],
                        PostCatch(@.request, <<error>>))]
    /\ UNCHANGED <<config, sse, health, stdout, twilioCreates>>

\* The insert of logMessageToSupabase settles: an error value, a thrown
\* error and a row all make it return null or the row, and
\* executeTaskComplete returns the result.
PostInsertSettles(r, outcome) ==
    /\ inv[r].pc = "awaitInsert" /\ inv[r].via = "post"
    /\ outcome \in InsertOutcomes
    /\ inv' = [inv EXCEPT ![r] =
                 Answer([@ EXCEPT !.insert = outcome], PostToolResponse(@))]
    /\ UNCHANGED <<config, sse, health, stdout, twilioCreates>>

\* -------------------------------------------------- http-server.js: GET /mcp
\* What new SSEServerTransport and server.connect do, as far as the handler
\* can tell: connect returns, or an error is thrown before the transport
\* has written the response head, or after it.
ConnectOutcomes == {"connected", "throwsBeforeHeaders", "throwsAfterHeaders"}

\* The transport writes the head of the event stream.
StreamHead(res) ==
    [res EXCEPT !.headersSent = TRUE, !.status = 200,
                !.contentType = "text/event-stream"]

\* The transport writes the endpoint event: the stream is established.
StreamOpen(res) ==
    [StreamHead(res) EXCEPT !.state = "stream", !.events = <<"endpoint">>]

\* The catch block of app.get('/mcp').
GetCatch(res) ==
    IF ~res.headersSent
    THEN [res EXCEPT !.state = "failed", !.headersSent = TRUE, !.status = 500,
                     !.contentType = "application/json",
                     !.json = "Failed to establish SSE connection",
                     !.ended = TRUE]
    ELSE [res EXCEPT !.state = "failed"]

\* server.connect(transport) on the one module-level server: the server
\* holds a single transport, the one it was connected to last.
Connect(conns, c) ==
    [k \in Slots |-> [conns[k] EXCEPT !.attached = (k = c)]]

\* A GET /mcp request: the handler creates a transport on the response and
\* connects the server to it. When connect throws, the server may or may
\* not have taken the new transport already.
GetMcp(c, outcome) ==
    /\ program = "http-server.js"
    /\ sse[c].state = "none"
    /\ \E replaced \in BOOLEAN :
         /\ outcome = "connected" => replaced
         /\ LET written == [sse EXCEPT ![c] =
                              IF outcome = "connected" THEN StreamOpen(@)
                              ELSE IF outcome = "throwsBeforeHeaders"
                              THEN GetCatch(@)
                              ELSE GetCatch(StreamHead(@))]
            IN  sse' = IF replaced THEN Connect(written, c) ELSE written
    /\ UNCHANGED <<config, stdout, inv, twilioCreates, health>>

\* The JSON body of GET /health; JSON.stringify leaves out a field whose
\* value is undefined.
HealthBody ==
    [sent |-> TRUE, status |-> "healthy", server |-> "twilio-mcp-server",
     configured |-> isTwilioConfiguredValue]

\* A GET /health request.
GetHealth ==
    /\ program = "http-server.js"
    /\ health' = HealthBody
    /\ UNCHANGED <<config, stdout, inv, twilioCreates, sse>>

\* ------------------------------------------ server.js: the stdio tool handler
\* The SDK frames what a request handler returns or throws: a result with
\* the request's id, or an error whose code is InternalError unless the
\* thrown error carries one, and whose message is the error's message.
SdkResult(id, result) == ResultEnvelope(0, id, result)
SdkError(id, error) == ErrorEnvelope(0, id, INTERNAL_ERROR, error, << >>)

\* The error the CallToolRequestSchema handler throws before the provider
\* call, or NoError.
CallToolThrows(request) ==
    IF request.params.name # "task_complete"
    THEN UnknownToolError(request.params.name)
    ELSE IF ~twilioClient THEN NotConfiguredError
    ELSE ValidationThrows(request.params.arguments)

\* The result object of the handler in server.js: it has no recipient.
CallToolResult(slot) ==
    [success |-> TRUE,
     message_sid |-> slot.twilioMessage.sid,
     truncated |-> slot.originalLength > MAX_LENGTH,
     original_length |-> slot.originalLength,
     sent_length |-> Length(slot.finalMessage),
     recipient |-> Undefined]

CallToolResponse(slot) ==
    SdkResult(slot.request.id, ContentResult(CallToolResult(slot)))

\* A tools/list request reaches the ListToolsRequestSchema handler of
\* server.js, which returns the one static descriptor.
StdioListTools(r, request) ==
    /\ program = "server.js"
    /\ Free(inv[r])
    /\ inv' = [inv EXCEPT ![r] =
                 Answered("stdio", request, SdkResult(request.id, ToolsListResult))]
    /\ stdout' = stdout \cup {RpcLine}
    /\ UNCHANGED <<config, sse, health, twilioCreates>>

\* A tools/call request reaches the handler, which runs to its first await
\* or throws; the transport writes the framed error to standard output.
StdioCallTool(r, request) ==
    /\ program = "server.js"
    /\ Free(inv[r])
    /\ IF CallToolThrows(request) # NoError
       THEN /\ inv' = [inv EXCEPT ![r] =
                        Answered("stdio", request,
                                 SdkError(request.id, CallToolThrows(request)))]
            /\ stdout' = stdout \cup {RpcLine}
            /\ UNCHANGED twilioCreates
       ELSE /\ twilioCreates < MaxSent
            /\ inv' = [inv EXCEPT ![r] = AtCreate("stdio", request)]
            /\ twilioCreates' = twilioCreates + 1
            /\ UNCHANGED stdout
    /\ UNCHANGED <<config, sse, health>>

\* messages.create resolves: logMessageToSupabase is called inside the try
\* block; without a Supabase client it logs with console.log, returns null,
\* and the handler returns its content.
StdioCreateResolves(r, sid) ==
    /\ inv[r].pc = "awaitCreate" /\ inv[r].via = "stdio"
    /\ IF isSupabaseConfigured
       THEN /\ inv' = [inv EXCEPT ![r] = AtInsert(WithMessage(@, sid))]
            /\ UNCHANGED stdout
       ELSE /\ inv' = [inv EXCEPT ![r] =
                        Answer(WithMessage(@, sid),
                               CallToolResponse(WithMessage(@, sid)))]
            /\ stdout' = stdout \cup {LogLine(49), RpcLine}
    /\ UNCHANGED <<config, sse, health, twilioCreates>>

\* StdioCreateRejects with one retry of the provider call before giving up.
StdioCreateRejectsRetries(r, error) ==
    /\ inv[r].pc = "awaitCreate" /\ inv[r].via = "stdio"
    /\ IF Len(inv[r].sends) < 2
       THEN /\ inv' = [inv EXCEPT ![r] =
                        [@ EXCEPT !.sends = Append(@, inv[r].sends[1])]]
            /\ twilioCreates' = twilioCreates + 1
            /\ UNCHANGED stdout
       ELSE /\ inv' = [inv EXCEPT ![r] =
                        Answer([@ EXCEPT !.providerError = <<error>>],
                               SdkError(@.request.id, FailedToSend(<<error>>)))]
            /\ stdout' = stdout \cup {RpcLine}
            /\ UNCHANGED twilioCreates
    /\ UNCHANGED <<config, sse, health>>

\* messages.create rejects: the catch block rethrows with the prefix.
StdioCreateRejects(r, error) ==
    /\ inv[r].pc = "awaitCreate" /\ inv[r].via = "stdio"
    /\ inv' = [inv EXCEPT ![r] =
                 Answer([@ EXCEPT !.providerError = <<error>>],
                        SdkError(@.request.id, FailedToSend(<<error>>)))]
    /\ stdout' = stdout \cup {RpcLine}
    /\ UNCHANGED <<config, sse, health, twilioCreates>>

\* StdioInsertSettles with a thrown insert error escaping
\* logMessageToSupabase into the catch block around the send.
StdioInsertSettlesUnwinds(r, outcome) ==
    /\ inv[r].pc = "awaitInsert" /\ inv[r].via = "stdio"
    /\ outcome \in InsertOutcomes
    /\ inv' = [inv EXCEPT ![r] =
                 Answer([@ EXCEPT !.insert = outcome],
                        IF outcome = "throw"
                        THEN SdkError(@.request.id,
                                      FailedToSend(<<"fetch failed">>))
                        ELSE CallToolResponse(@))]
    /\ stdout' = stdout \cup
                   (IF outcome = "row" THEN {LogLine(64)} ELSE {}) \cup {RpcLine}
    /\ UNCHANGED <<config, sse, health, twilioCreates>>

\* The insert settles: logMessageToSupabase returns in every case (a row is
\* reported with console.log, an error value or a thrown error with
\* console.error) and the handler returns its content.
StdioInsertSettles(r, outcome) ==
    /\ inv[r].pc = "awaitInsert" /\ inv[r].via = "stdio"
    /\ outcome \in InsertOutcomes
    /\ inv' = [inv EXCEPT ![r] =
                 Answer([@ EXCEPT !.insert = outcome], CallToolResponse(@))]
    /\ stdout' = stdout \cup
                   (IF outcome = "row" THEN {LogLine(64)} ELSE {}) \cup {RpcLine}
    /\ UNCHANGED <<config, sse, health, twilioCreates>>

\* -------------------------- the older stdio server (src/unnamed/part_001)
\* It reads three environment variables, has no default recipient and no
\* message log, and writes its diagnostics with console.error.
LegacyProgram == "part_001"

isTwilioConfiguredLegacy ==
    /\ Truthy(accountSid)
    /\ Truthy(authToken)
    /\ Truthy(twilioPhoneNumber)

LegacyInit ==
    /\ program = LegacyProgram
    /\ \E env \in Environments :
         /\ env.defaultRecipient = Undefined
         /\ accountSid = env.accountSid
         /\ authToken = env.authToken
         /\ twilioPhoneNumber = env.twilioPhoneNumber
         /\ defaultRecipient = env.defaultRecipient
    /\ twilioClient = isTwilioConfiguredLegacy
    /\ supabase = FALSE
    /\ stdout = {}
    /\ inv = [r \in Slots |-> IdleSlot]
    /\ twilioCreates = 0
    /\ sse = [c \in Slots |-> NoConnection]
    /\ health = NoHealth

\* The descriptor of the older server requires both arguments.
LegacyTool == [TaskCompleteTool EXCEPT !.required = {"message", "to_phone_number"}]
LegacyToolsListResult == [ToolsListResult EXCEPT !.tools = <<LegacyTool>>]

ToPhoneNumberRequiredError == <<"to_phone_number is required">>

\* LegacyCallToolThrows without the two checks of to_phone_number.
LegacyCallToolThrowsNoRecipientCheck(request) ==
    IF request.params.name # "task_complete"
    THEN UnknownToolError(request.params.name)
    ELSE IF ~twilioClient THEN NotConfiguredError
    ELSE IF ~request.params.arguments.present
    THEN TypeErrorOf("Cannot destructure property 'message' of 'args'")
    ELSE IF ~Truthy(request.params.arguments.message) THEN MessageRequiredError
    ELSE NoError

\* The error the older CallToolRequestSchema handler throws before the
\* provider call, or NoError.
LegacyCallToolThrows(request) ==
    IF request.params.name # "task_complete"
    THEN UnknownToolError(request.params.name)
    ELSE IF ~twilioClient THEN NotConfiguredError
    ELSE IF ~request.params.arguments.present
    THEN TypeErrorOf("Cannot destructure property 'message' of 'args'")
    ELSE IF ~Truthy(request.params.arguments.message) THEN MessageRequiredError
    ELSE IF ~Truthy(request.params.arguments.to_phone_number)
    THEN ToPhoneNumberRequiredError
    ELSE IF ~StartsWithPlus(request.params.arguments.to_phone_number)
    THEN E164Error
    ELSE NoError

\* A slot that has run the older handler up to the await of
\* messages.create: the recipient is to_phone_number itself.
LegacyAtCreate(request) ==
    LET args == request.params.arguments
        message == args.message.str
    IN [IdleSlot EXCEPT
            !.pc = "awaitCreate", !.via = "legacy", !.request = request,
            !.recipient = args.to_phone_number,
            !.finalMessage = FinalMessage(message),
            !.originalLength = Length(message),
            !.sends = <<CreateCall(FinalMessage(message), args.to_phone_number)>>]

LegacyListTools(r, request) ==
    /\ program = LegacyProgram
    /\ Free(inv[r])
    /\ inv' = [inv EXCEPT ![r] =
                 Answered("legacy", request,
                          SdkResult(request.id, LegacyToolsListResult))]
    /\ stdout' = stdout \cup {RpcLine}
    /\ UNCHANGED <<config, sse, health, twilioCreates>>

LegacyCallTool(r, request) ==
    /\ program = LegacyProgram
    /\ Free(inv[r])
    /\ IF LegacyCallToolThrows(request) # NoError
       THEN /\ inv' = [inv EXCEPT ![r] =
                        Answered("legacy", request,
                                 SdkError(request.id, LegacyCallToolThrows(request)))]
            /\ stdout' = stdout \cup {RpcLine}
            /\ UNCHANGED twilioCreates
       ELSE /\ twilioCreates < MaxSent
            /\ inv' = [inv EXCEPT ![r] = LegacyAtCreate(request)]
            /\ twilioCreates' = twilioCreates + 1
            /\ UNCHANGED stdout
    /\ UNCHANGED <<config, sse, health>>

\* messages.create resolves: the handler returns its content.
LegacyCreateResolves(r, sid) ==
    /\ inv[r].pc = "awaitCreate" /\ inv[r].via = "legacy"
    /\ inv' = [inv EXCEPT ![r] =
                 Answer(WithMessage(@, sid), CallToolResponse(WithMessage(@, sid)))]
    /\ stdout' = stdout \cup {RpcLine}
    /\ UNCHANGED <<config, sse, health, twilioCreates>>

\* messages.create rejects: the catch block rethrows with the prefix.
LegacyCreateRejects(r, error) ==
    /\ inv[r].pc = "awaitCreate" /\ inv[r].via = "legacy"
    /\ inv' = [inv EXCEPT ![r] =
                 Answer([@ EXCEPT !.providerError = <<error>>],
                        SdkError(@.request.id, FailedToSend(<<error>>)))]
    /\ stdout' = stdout \cup {RpcLine}
    /\ UNCHANGED <<config, sse, health, twilioCreates>>

\* ----------------------------------------------------------- specification
\* The lowest free slot takes the next request.
FreeSlot(r) ==
    /\ Free(inv[r])
    /\ \A q \in Slots : q < r => ~Free(inv[q])

\* No invocation is in flight.
Quiescent == \A q \in Slots : Free(inv[q])

\* A client that sends its next request after the answer to the previous
\* one, with every request shape.
Next ==
    \E r \in Slots :
        \/ \E body \in Bodies : Quiescent /\ FreeSlot(r) /\ PostMcp(r, body)
        \/ \E sid \in MessageSids : PostCreateResolves(r, sid)
        \/ \E error \in ProviderErrors : PostCreateRejects(r, error)
        \/ \E outcome \in InsertOutcomes : PostInsertSettles(r, outcome)
        \/ \E request \in SdkRequests :
               Quiescent /\ FreeSlot(r) /\ StdioCallTool(r, request)
        \/ \E request \in SdkListRequests :
               Quiescent /\ FreeSlot(r) /\ StdioListTools(r, request)
        \/ \E sid \in MessageSids : StdioCreateResolves(r, sid)
        \/ \E error \in ProviderErrors : StdioCreateRejects(r, error)
        \/ \E outcome \in InsertOutcomes : StdioInsertSettles(r, outcome)

Spec == Init /\ [][Next]_vars

\* Every outstanding provider call and every outstanding insert settles, and
\* the event loop then resumes the handler that awaits it.
Settles(r) ==
    \/ \E sid \in MessageSids : PostCreateResolves(r, sid)
    \/ \E error \in ProviderErrors : PostCreateRejects(r, error)
    \/ \E outcome \in InsertOutcomes : PostInsertSettles(r, outcome)
    \/ \E sid \in MessageSids : StdioCreateResolves(r, sid)
    \/ \E error \in ProviderErrors : StdioCreateRejects(r, error)
    \/ \E outcome \in InsertOutcomes : StdioInsertSettles(r, outcome)

FairSpec == Spec /\ \A r \in Slots : WF_vars(Settles(r))

\* The three servers of the repository, each with its sequential client.
LegacyNext ==
    \E r \in Slots :
        \/ \E request \in SdkRequests :
               Quiescent /\ FreeSlot(r) /\ LegacyCallTool(r, request)
        \/ \E request \in SdkListRequests :
               Quiescent /\ FreeSlot(r) /\ LegacyListTools(r, request)
        \/ \E sid \in MessageSids : LegacyCreateResolves(r, sid)
        \/ \E error \in ProviderErrors : LegacyCreateRejects(r, error)

HandlersInit == Init \/ LegacyInit

HandlersNext == Next \/ LegacyNext

HandlersSpec == HandlersInit /\ [][HandlersNext]_vars

\* ------------------------------------------------------------------ claims
\* The invocation of slot r reached the tool body of task_complete.
IsToolCall(slot) ==
    /\ slot.request.present
    /\ slot.request.method = "tools/call"
    /\ slot.request.params.present
    /\ slot.request.params.name = "task_complete"

ArgsOf(slot) == slot.request.params.arguments

\* The message is empty or absent.
MessageMissing(slot) ==
    \/ ~ArgsOf(slot).present
    \/ ArgsOf(slot).message.type = "undefined"
    \/ ArgsOf(slot).message.str = << >>

\* The explicit recipient when it is a non-empty string, else the default.
ResolvedRecipient(slot) ==
    IF ArgsOf(slot).to_phone_number.type = "string"
       /\ ArgsOf(slot).to_phone_number.str # << >>
    THEN ArgsOf(slot).to_phone_number
    ELSE defaultRecipient

\* The resolved recipient is absent or does not start with '+'.
RecipientBad(slot) ==
    \/ ~ArgsOf(slot).present
    \/ ResolvedRecipient(slot).type = "undefined"
    \/ ResolvedRecipient(slot).str = << >>
    \/ ResolvedRecipient(slot).str[1].unit # "+"

\* The invocation passes the configuration and validation checks.
PassesChecks(slot) ==
    /\ IsToolCall(slot)
    /\ twilioClient
    /\ ~MessageMissing(slot)
    /\ ~RecipientBad(slot)

\* A text made of fragments mentions a fragment.
Mentions(text, fragment) == \E i \in DOMAIN text : text[i] = fragment

\* ------------------------------------------- concurrent POST /mcp requests
\* The requests of the concurrent clients: each plain method, a short
\* message to an explicit recipient and a long one to the default recipient.
ConcBodies ==
    {b \in Bodies :
        /\ b.present
        /\ \/ b.method \in {"initialize", "tools/list"} /\ b.id = IdNum(7)
           \/ b.method = "notifications/initialized" /\ b.id = IdUndefined
           \/ /\ b.method = "tools/call" /\ b.params.present
              /\ b.params.name = "task_complete" /\ b.params.arguments.present
              /\ \/ /\ b.id = IdNum(0)
                    /\ b.params.arguments.message = Str(MessageOfLength(1))
                    /\ b.params.arguments.to_phone_number = Str(<<Run("+", 1), Run("1", 1)>>)
                 \/ /\ b.id = IdStr("a")
                    /\ b.params.arguments.message
                          = Str(MessageOfLength(MAX_LENGTH + MaxExtra))
                    /\ b.params.arguments.to_phone_number = Undefined}

\* The provider hands every message an id of its own.
ConcSids == {"SM1", "SM2"}

\* The slot whose external calls may never settle.
Hanging == NumSlots

ConcInit == Init /\ program = "http-server.js"

\* Clients that send requests without waiting for one another.
ConcNext ==
    \E r \in Slots :
        \/ \E body \in ConcBodies : PostReceived(r, body)
        \/ PostDispatch(r)
        \/ \E sid \in ConcSids : PostCreateResolves(r, sid)
        \/ \E error \in ProviderErrors : PostCreateRejects(r, error)
        \/ \E outcome \in InsertOutcomes : PostInsertSettles(r, outcome)

PostSettles(r) ==
    \/ \E sid \in ConcSids : PostCreateResolves(r, sid)
    \/ \E error \in ProviderErrors : PostCreateRejects(r, error)
    \/ \E outcome \in InsertOutcomes : PostInsertSettles(r, outcome)

\* The event loop runs every received request; the external calls of every
\* slot but the hanging one settle.
ConcSpec ==
    /\ ConcInit /\ [][ConcNext]_vars
    /\ \A r \in Slots : WF_vars(PostDispatch(r))
    /\ \A r \in Slots \ {Hanging} : WF_vars(PostSettles(r))

\* ------------------------------------------------- GET /mcp event streams
SseInit == Init /\ program = "http-server.js"

SseNext ==
    \/ \E c \in Slots, outcome \in ConnectOutcomes : GetMcp(c, outcome)
    \/ GetHealth

SseSpec == SseInit /\ [][SseNext]_vars

\* C1: on POST /mcp every request with a non-null id gets exactly one
\* response envelope whose id equals the request's id, whatever the method
\* and the outcome; notifications/initialized gets no response body.
C1_ResponseCarriesRequestId ==
    \A r \in Slots :
        LET s == inv[r] IN
        (s.pc = "done" /\ s.via = "post" /\ s.request.present) =>
            IF s.request.method = "notifications/initialized"
            THEN Len(s.responses) = 1 /\ ~s.responses[1].hasBody
            ELSE NonNullId(s.request.id) =>
                    /\ Len(s.responses) = 1
                    /\ s.responses[1].hasBody
                    /\ s.responses[1].id = s.request.id

\* C2: a POST /mcp tools/call naming another tool than task_complete is
\* answered with a JSON-RPC error of code -32601, and no send is attempted.
C2_WrongToolIsMethodNotFound ==
    \A r \in Slots :
        LET s == inv[r] IN
        (/\ s.via = "post" /\ s.request.present
         /\ s.request.method = "tools/call" /\ s.request.params.present
         /\ s.request.params.name # "task_complete") =>
            /\ s.pc = "done"
            /\ s.sends = << >>
            /\ Len(s.responses) = 1
            /\ s.responses[1].kind = "error"
            /\ s.responses[1].code = METHOD_NOT_FOUND

\* C3: on every transport, when the provider's send fails for a validated
\* tools/call, the caller gets a JSON-RPC error whose message contains
\* "Failed to send SMS" and the provider's own message.
C3_ProviderFailureInMessage ==
    \A r \in Slots :
        LET s == inv[r] IN
        (s.pc = "done" /\ s.providerError # << >>) =>
            /\ Len(s.responses) = 1
            /\ s.responses[1].kind = "error"
            /\ Mentions(s.responses[1].message, "Failed to send SMS")
            /\ Mentions(s.responses[1].message, s.providerError[1])

\* C4: in the stdio server nothing but JSON-RPC protocol messages is ever
\* written to standard output.
C4_StdoutIsProtocolOnly ==
    program = "server.js" => \A l \in stdout : l.kind = "jsonrpc"

\* C5: a tools/call that fails the configuration or validation checks has
\* performed no provider send and no persistence append, at no point of the
\* invocation, and is answered with an error.
C5_NoSideEffectBeforeRejection ==
    \A r \in Slots :
        LET s == inv[r] IN
        (IsToolCall(s) /\ (~twilioClient \/ MessageMissing(s) \/ RecipientBad(s))) =>
            /\ s.pc = "done"
            /\ s.sends = << >>
            /\ s.appends = << >>
            /\ Len(s.responses) = 1
            /\ s.responses[1].kind = "error"

C5_Witness ==
    \E r \in Slots :
        /\ inv[r].pc = "done" /\ IsToolCall(inv[r])
        /\ twilioClient /\ ~MessageMissing(inv[r]) /\ RecipientBad(inv[r])
        /\ inv[r].sends = << >>

\* C6: with the SMS client never initialized, executeTaskComplete fails
\* with the configuration error for every argument value (absent
\* arguments, empty message, malformed recipient included).
C6_ConfigurationCheckFirst ==
    \A r \in Slots :
        LET s == inv[r] IN
        (s.via = "post" /\ IsToolCall(s) /\ ~twilioClient) =>
            /\ s.pc = "done"
            /\ Len(s.responses) = 1
            /\ s.responses[1].kind = "error"
            /\ s.responses[1].data = NotConfiguredError

C6_Witness ==
    \E r \in Slots :
        /\ inv[r].via = "post" /\ IsToolCall(inv[r]) /\ ~twilioClient
        /\ ~ArgsOf(inv[r]).present
        /\ inv[r].responses[1].data = NotConfiguredError

\* C7: after a successful provider send the caller gets a success carrying
\* the provider's message id, fixed by the request and the provider's reply
\* alone: the same whether the append is skipped, returns an error value,
\* throws or succeeds.
C7_PersistenceNeverUnwinds ==
    \A r \in Slots :
        LET s == inv[r] IN
        (s.pc = "done" /\ s.twilioMessage.sid # "") =>
            /\ Len(s.responses) = 1
            /\ s.responses[1].kind = "result"
            /\ s.responses[1].id = s.request.id
            /\ s.responses[1].result.call.success
            /\ s.responses[1].result.call.message_sid = s.twilioMessage.sid
            /\ s.responses[1].result.call.original_length
                   = Length(ArgsOf(s).message.str)
            /\ s.responses[1].result.call.sent_length = Length(s.sends[1].body)
            /\ s.responses[1].result.call.truncated
                   = (Length(ArgsOf(s).message.str) > MAX_LENGTH)
            /\ s.responses[1].result.call.recipient
                   = (IF s.via = "post" THEN s.sends[1].to ELSE Undefined)

C7_Witness ==
    \E r \in Slots :
        /\ inv[r].pc = "done" /\ inv[r].via = "stdio"
        /\ inv[r].twilioMessage.sid # "" /\ inv[r].insert = "throw"
        /\ inv[r].responses[1].kind = "result"

\* C8: every tools/call that passes the checks calls the provider exactly
\* once: the provider's count grows by one when the call is issued, whatever
\* was handled before, and at no other step (no retry after a failure).
C8_SendsOfPassingInvocation ==
    \A r \in Slots :
        /\ PassesChecks(inv[r]) => Len(inv[r].sends) = 1
        /\ inv[r].pc \in {"awaitCreate", "awaitInsert"} => PassesChecks(inv[r])

C8_SendCountStep ==
    twilioCreates' = twilioCreates +
        Cardinality({r \in Slots : Free(inv[r]) /\ inv'[r].pc = "awaitCreate"})

C8_ExactlyOneSend == []C8_SendsOfPassingInvocation /\ [][C8_SendCountStep]_vars

C8_Witness ==
    \E r \in Slots :
        /\ inv[r].pc = "done" /\ PassesChecks(inv[r])
        /\ inv[r].providerError # << >>
        /\ twilioCreates >= 2

\* The request of the slot raises an exception in the router or below it.
RaisesException(slot) ==
    \/ ~slot.request.present
    \/ /\ slot.request.method = "tools/call"
       /\ \/ ~slot.request.params.present
          \/ slot.request.params.name # "task_complete"
          \/ ~twilioClient
          \/ MessageMissing(slot)
          \/ RecipientBad(slot)
          \/ slot.providerError # << >>

C9_OneResponse ==
    \A r \in Slots :
        LET s == inv[r] IN
        (s.via = "post" /\ s.pc = "done") =>
            /\ Len(s.responses) = 1
            /\ RaisesException(s) =>
                  /\ s.responses[1].hasBody
                  /\ s.responses[1].kind = "error"
                  /\ s.responses[1].code = INTERNAL_ERROR

C10_DefaultRecipientOptional ==
    /\ twilioClient <=>
          (Truthy(accountSid) /\ Truthy(authToken) /\ Truthy(twilioPhoneNumber))
    /\ \A r \in Slots :
          LET s == inv[r] IN
          (/\ s.pc = "done" /\ IsToolCall(s) /\ ArgsOf(s).present
           /\ Truthy(accountSid) /\ Truthy(authToken) /\ Truthy(twilioPhoneNumber)
           /\ StartsWithPlus(ArgsOf(s).to_phone_number)) =>
              /\ s.responses[1].data # NotConfiguredError
              /\ s.responses[1].message # NotConfiguredError

\* C11: a message of n code units reaches the provider unchanged when
\* n <= 250, with truncated false and sent_length = original_length = n;
\* when n > 250 the provider gets its first 247 code units followed by
\* "...", with sent_length 250, truncated true and original_length n.
C11_TruncationAtLimit ==
    \A r \in Slots :
        LET s == inv[r]
            message == ArgsOf(s).message.str
            n == Length(message)
        IN  s.sends # << >> =>
            LET body == s.sends[1].body
                call == s.responses[1].result.call
            IN  /\ n <= 250 => body = message
                /\ n > 250 =>
                      /\ Length(body) = 250
                      /\ \A i \in 1..247 : UnitAt(body, i) = UnitAt(message, i)
                      /\ \A i \in 248..250 : UnitAt(body, i) = "."
                /\ (s.pc = "done" /\ s.twilioMessage.sid # "") =>
                      /\ call.truncated = (n > 250)
                      /\ call.original_length = n
                      /\ call.sent_length = (IF n > 250 THEN 250 ELSE n)

C11_Witness ==
    \E r \in Slots :
        /\ inv[r].pc = "done" /\ inv[r].twilioMessage.sid # ""
        /\ Length(ArgsOf(inv[r]).message.str) = 251
        /\ inv[r].responses[1].result.call.truncated
        /\ inv[r].responses[1].result.call.sent_length = 250

\* C12: for every tools/call that reaches the provider, the recipient
\* passed to the send and the recipient reported in the result are the
\* explicit to_phone_number when it is a non-empty string, and the
\* configured default otherwise.
C12_RecipientResolved ==
    \A r \in Slots :
        LET s == inv[r] IN
        s.sends # << >> =>
            /\ s.sends[1].to = ResolvedRecipient(s)
            /\ (s.pc = "done" /\ s.twilioMessage.sid # "") =>
                  s.responses[1].result.call.recipient = ResolvedRecipient(s)

\* C13: tools/list answers with exactly one tool, task_complete, whose
\* input schema requires message, at any point of any sequence of requests
\* and under any configuration.
C13_ToolsListIsStatic ==
    \A r \in Slots :
        LET s == inv[r] IN
        (s.pc = "done" /\ s.request.present /\ s.request.method = "tools/list") =>
            /\ Len(s.responses) = 1
            /\ s.responses[1].kind = "result"
            /\ Len(s.responses[1].result.tools) = 1
            /\ s.responses[1].result.tools[1].name = "task_complete"
            /\ "message" \in s.responses[1].result.tools[1].required

C13_Witness ==
    \E r \in Slots :
        /\ inv[r].pc = "done"
        /\ inv[r].request.present /\ inv[r].request.method = "tools/list"
        /\ twilioCreates > 0
        /\ inv[r].responses[1].result.tools = <<TaskCompleteTool>>

\* C14: given the same arguments, configuration and provider outcome, the
\* stdio handler returns the result the HTTP POST adapter returns, with the
\* same fields and values, recipient included.
C14_AdaptersAgree ==
    \A r \in Slots :
        LET s == inv[r] IN
        (s.via = "stdio" /\ s.pc = "done" /\ s.twilioMessage.sid # "") =>
            s.responses[1].result = PostToolResponse(s).result

\* C15: within one invocation the message log gets at most one record,
\* only after that invocation's send has returned a message id and with
\* that id; a failed send leaves no record.
C15_AppendFollowsSend ==
    \A r \in Slots :
        LET s == inv[r] IN
        /\ Len(s.appends) <= 1
        /\ s.appends # << >> =>
              /\ Len(s.sends) = 1
              /\ s.twilioMessage.sid # ""
              /\ s.providerError = << >>
              /\ s.appends[1].message_sid = s.twilioMessage.sid
        /\ (s.pc = "awaitCreate" \/ s.providerError # << >>) => s.appends = << >>

C15_Witness ==
    \E r \in Slots :
        /\ inv[r].pc = "done" /\ Len(inv[r].appends) = 1
        /\ inv[r].appends[1].message_sid = "SM1"
        /\ inv[r].insert = "row"

\* C16: while the tools/call of one request is suspended on a provider send
\* or a log append that never returns, every other POST /mcp request that
\* arrives is eventually answered.
C16_OthersAnsweredWhileOneHangs ==
    \A r \in Slots \ {Hanging} :
        (Suspended(inv[Hanging]) /\ inv[r].pc = "received")
            ~> (inv[r].pc = "done" /\ Len(inv[r].responses) = 1)

C16_Witness ==
    \E r \in Slots \ {Hanging} :
        /\ inv[Hanging].pc = "awaitCreate"
        /\ inv[r].pc = "done" /\ IsToolCall(inv[r])
        /\ inv[r].twilioMessage.sid # ""
        /\ inv[r].responses[1].kind = "result"

\* C17: under every interleaving of concurrent POST tools/call invocations
\* the response of each carries the id of its own request and a result
\* built from its own arguments and the provider's reply to its own send;
\* no step changes the SMS client, the default recipient or the
\* persistence client after startup.
C17_OwnIdAndResult ==
    \A r \in Slots :
        LET s == inv[r]
            n == Length(ArgsOf(s).message.str)
        IN  (s.via = "post" /\ s.pc = "done" /\ s.twilioMessage.sid # "") =>
            /\ Len(s.responses) = 1
            /\ s.responses[1].id = s.request.id
            /\ s.responses[1].result.call
                  = [success |-> TRUE,
                     message_sid |-> s.twilioMessage.sid,
                     truncated |-> n > 250,
                     original_length |-> n,
                     sent_length |-> IF n > 250 THEN 250 ELSE n,
                     recipient |-> ResolvedRecipient(s)]

C17_Isolation ==
    /\ []C17_OwnIdAndResult
    /\ [][/\ twilioClient' = twilioClient
          /\ defaultRecipient' = defaultRecipient
          /\ supabase' = supabase]_vars

C17_Witness ==
    \E r, q \in Slots :
        /\ inv[r].pc = "done" /\ inv[q].pc = "done"
        /\ inv[r].request.id = IdNum(0) /\ inv[q].request.id = IdStr("a")
        /\ inv[r].twilioMessage.sid = "SM2" /\ inv[q].twilioMessage.sid = "SM1"
        /\ inv[r].responses[1].result.call.message_sid = "SM2"
        /\ inv[q].responses[1].result.call.message_sid = "SM1"
        /\ inv[q].responses[1].result.call.truncated
        /\ inv[q].responses[1].result.call.recipient = defaultRecipient

\* C18: the cut of the truncation falls on a character boundary: a
\* character of two code units that starts within the first 247 code units
\* of the message reaches the provider whole or not at all.
C18_CutOnCharacterBoundary ==
    \A r \in Slots :
        LET s == inv[r] IN
        s.sends # << >> =>
            \A i \in 1..247 :
                (/\ UnitAt(ArgsOf(s).message.str, i) = HighSurrogate
                 /\ UnitAt(s.sends[1].body, i) = HighSurrogate) =>
                    UnitAt(s.sends[1].body, i + 1) = LowSurrogate

\* C19: the POST /mcp router keeps no protocol state: the response to a
\* request is fixed by the request, the startup configuration and the
\* provider's reply, whatever was received before it and however often.
C19_RouterIsStateless ==
    \A r, q \in Slots :
        (/\ inv[r].pc = "done" /\ inv[q].pc = "done"
         /\ inv[r].request = inv[q].request
         /\ inv[r].twilioMessage = inv[q].twilioMessage
         /\ inv[r].providerError = inv[q].providerError) =>
            /\ Len(inv[r].responses) = 1
            /\ inv[r].responses = inv[q].responses

C19_Witness ==
    \E r, q \in Slots :
        /\ r # q
        /\ inv[r].pc = "done" /\ inv[q].pc = "done"
        /\ inv[r].request = inv[q].request
        /\ inv[r].request.method = "tools/list"
        /\ inv[r].responses = inv[q].responses
        /\ twilioCreates > 0

\* C20: whenever establishing the event stream of a GET /mcp fails, the
\* client receives HTTP 500 with a JSON error body and no stream bytes
\* before it; no failure leaves the client with neither the stream nor the
\* 500.
C20_ConnectFailureIs500 ==
    \A c \in Slots :
        sse[c].state = "failed" =>
            /\ sse[c].status = 500
            /\ sse[c].contentType = "application/json"
            /\ sse[c].json # ""
            /\ sse[c].events = << >>

\* C24: for every successful tools/call the record handed to the message
\* log agrees with the result returned and with what was sent: same message
\* id, to_phone equal to the send's recipient, sent_message equal to the
\* body sent, original_length and sent_length equal to the result's, and
\* truncated true exactly when original_length > 250.
C24_RecordAgreesWithResult ==
    \A r \in Slots :
        LET s == inv[r] IN
        s.appends # << >> =>
            LET record == s.appends[1]
                call == s.responses[1].result.call
            IN  /\ record.message_sid = s.twilioMessage.sid
                /\ record.to_phone = s.sends[1].to
                /\ record.sent_message = s.sends[1].body
                /\ record.original_message = ArgsOf(s).message.str
                /\ record.truncated = (record.original_length > 250)
                /\ s.pc = "done" =>
                      /\ s.responses[1].kind = "result"
                      /\ record.message_sid = call.message_sid
                      /\ record.original_length = call.original_length
                      /\ record.sent_length = call.sent_length
                      /\ record.truncated = call.truncated
                      /\ s.via = "post" => record.to_phone = call.recipient

C24_Witness ==
    \E r \in Slots :
        /\ inv[r].pc = "done" /\ Len(inv[r].appends) = 1
        /\ inv[r].appends[1].truncated
        /\ inv[r].appends[1].sent_length = 250
        /\ inv[r].appends[1].to_phone = Str(<<Run("+", 1), Run("1", 1)>>)
        /\ inv[r].responses[1].result.call.message_sid = "SM1"

\* C21: an event stream opened by GET /mcp stays the server's session until
\* its own client disconnects: a second GET /mcp neither ends the first
\* stream nor takes the server away from it, so what the server sends for
\* the first session still goes to the first stream.
C21_SessionSurvivesSecondGet ==
    \A c, k \in Slots :
        (c # k /\ sse[c].state = "stream" /\ sse[k].state = "stream") =>
            (~sse[c].ended /\ sse[c].attached)

\* The JSON literals true and false.
JsonTrue == [type |-> "true", str |-> << >>]
JsonFalse == [type |-> "false", str |-> << >>]

\* C23: the configured field of GET /health is true exactly when a
\* tools/call would pass the configuration check and false otherwise; the
\* response carries nothing else of the configuration, so deployments that
\* differ only in the configured values answer alike.
C23_HealthHidesValues ==
    health.sent =>
        /\ health.status = "healthy"
        /\ health.server = "twilio-mcp-server"
        /\ health.configured = (IF twilioClient THEN JsonTrue ELSE JsonFalse)

\* C22: every provider send issued by any handler of the three servers,
\* after any sequence of requests, has a recipient that starts with '+' and
\* a body of at least one and at most 250 code units.
C22_SendsAreWellFormed ==
    \A r \in Slots :
        \A i \in DOMAIN inv[r].sends :
            LET send == inv[r].sends[i] IN
            /\ send.to.type = "string"
            /\ UnitAt(send.to.str, 1) = "+"
            /\ Length(send.body) >= 1
            /\ Length(send.body) <= 250

C22_Witness ==
    \E r \in Slots :
        /\ program = LegacyProgram
        /\ inv[r].pc = "done" /\ inv[r].twilioMessage.sid # ""
        /\ inv[r].originalLength > 250
        /\ Length(inv[r].sends[1].body) = 250
        /\ inv[r].sends[1].to = Str(<<Run("+", 1), Run("1", 1)>>)

====
